---- MODULE Spec2Model ----
(***************************************************************************)
(* Model of the conversation state store of src/store/index.ts: a zustand  *)
(* store (apiSettings, agent and strategy selection, message log, sidebar  *)
(* flags, processing status) and its one asynchronous action submitQuery.  *)
(*                                                                         *)
(* JavaScript runs every handler to completion, so each store operation is *)
(* one action.  submitQuery has a single suspension point (the await of    *)
(* the backend client): its synchronous prefix is one action, and the      *)
(* continuation after the await (try / catch / finally) is another.        *)
(***************************************************************************)
EXTENDS Integers, Sequences, FiniteSets, TLC

VARIABLES
    store,      \* the zustand state object (one field per slice)
    pending,    \* submitQuery invocations suspended at the await
    now,        \* the last reading of the clock (0: not read yet)
    nextUuid,   \* number of ids handed out by uuidv4()
    calls,      \* number of submitQuery invocations so far
    steps,      \* number of store operations so far
    sideOps,    \* number of those outside the focus of the exploration
    lastOp,     \* the operation that ran last: its name, its arguments
                \* and the state it started from
    limits      \* how far the callers go in this exploration

vars == <<store, pending, now, nextUuid, calls, steps, sideOps, lastOp,
          limits>>

----------------------------------------------------------------------------
(* Bounds of the exploration *)

MaxSteps == 4       \* store operations per behaviour
MaxSubmits == 2     \* submitQuery invocations per behaviour
MaxSideOps == 1     \* operations outside the focus of the exploration
SelMaxSteps == 5    \* store operations per behaviour, selection in focus
LiveMaxSteps == 3   \* store operations per behaviour, settlement in focus

(* Program constant: the selection capacity *)
MaxSelected == 4

----------------------------------------------------------------------------
(* Catalogs *)

agents ==
    << [id |-> "data-architect",    name |-> "Data Architect"],
       [id |-> "pipeline-engineer", name |-> "Pipeline Engineer"],
       [id |-> "data-analyst",      name |-> "Data Analyst"],
       [id |-> "data-scientist",    name |-> "Data Scientist"],
       [id |-> "data-governance",   name |-> "Governance Specialist"],
       [id |-> "data-engineer",     name |-> "Data Engineer"] >>

strategies ==
    << [id |-> "sequential",    name |-> "Sequential"],
       [id |-> "collaborative", name |-> "Collaborative"],
       [id |-> "debate",        name |-> "Debate"] >>

initialApiSettings ==
    [ apiUrl |-> "http://localhost:5678",
      apiKey |-> "",
      backendType |-> "n8n",
      n8nConnectionStatus |-> "disconnected",
      useDemoMode |-> FALSE ]

Null == "null"
Undefined == "undefined"

----------------------------------------------------------------------------
(* Inputs of the operations *)

AgentIdInputs ==
    {"data-engineer", "data-analyst", "pipeline-engineer", "data-architect",
     "no-such-agent"}

StrategyIdInputs == {"debate", "no-such-strategy"}

ConversationIdInputs == {"conv-1"}

StatusInputs == {"error"}

SettingsInputs ==
    { [n8nConnectionStatus |-> "connected", useDemoMode |-> TRUE] }

QueryInputs == {"hello", ""}

ExternalMessage(n) ==
    [ id |-> <<"ext", n>>, content |-> "note",
      role |-> IF n = 1 THEN "user" ELSE "assistant",
      type |-> Undefined, agentId |-> "data-analyst" ]

(* What the backend client can hand back to invocation number call: a      *)
(* result flagged successful with an ordered list of messages, a result    *)
(* flagged unsuccessful with or without an error text, or a thrown value.  *)
Reply(call, n) ==
    [ id |-> <<"reply", call, n>>, content |-> "answer", role |-> "assistant",
      type |-> Undefined, agentId |-> "data-analyst" ]

ResponseInputs(call) ==
    { [success |-> TRUE,  messages |-> <<Reply(call, 1), Reply(call, 2)>>,
       error |-> Undefined],
      [success |-> FALSE, messages |-> <<>>, error |-> "Workflow failed"],
      [success |-> FALSE, messages |-> <<>>, error |-> ""],
      [success |-> FALSE, messages |-> <<>>, error |-> Undefined] }

ThrownInputs ==
    { [isError |-> TRUE,  message |-> "timeout"],
      [isError |-> FALSE, message |-> Undefined] }

----------------------------------------------------------------------------
(* JavaScript helpers *)

(* Array.prototype.filter is SelectSeq: the elements that pass the test,   *)
(* in their order                                                          *)

includes(seq, x) == \E i \in 1..Len(seq) : seq[i] = x

Range(seq) == { seq[i] : i \in 1..Len(seq) }

(* zustand set(partial): shallow merge of partial into the state *)
set(state, partial) ==
    [ f \in DOMAIN state |->
        IF f \in DOMAIN partial THEN partial[f] ELSE state[f] ]

uuidv4(n) == <<"uuid", n>>

(* A message; its createdAt timestamp is left out, nothing reads it *)
Message(id, content, role, type, agentId) ==
    [ id |-> id, content |-> content, role |-> role, type |-> type,
      agentId |-> agentId ]

----------------------------------------------------------------------------
(* Store operations, as functions from state to state *)

updateApiSettings(state, settings) ==
    set(state, [apiSettings |-> set(state.apiSettings, settings)])

(* Variant: capacity test off by one *)
selectAgent_offByOne(state, agentId) ==
    set(state,
        IF Len(state.selectedAgentIds) > 4
             /\ ~includes(state.selectedAgentIds, agentId)
        THEN state
        ELSE [ selectedAgentIds |->
                 IF includes(state.selectedAgentIds, agentId)
                 THEN state.selectedAgentIds
                 ELSE Append(state.selectedAgentIds, agentId) ])

(* Variant: at capacity the oldest selection makes room for the new one *)
selectAgent_evictOldest(state, agentId) ==
    set(state,
        [ selectedAgentIds |->
            IF includes(state.selectedAgentIds, agentId)
            THEN state.selectedAgentIds
            ELSE IF Len(state.selectedAgentIds) >= 4
                 THEN Append(Tail(state.selectedAgentIds), agentId)
                 ELSE Append(state.selectedAgentIds, agentId) ])

(* Variant: below capacity the id is appended without the membership test *)
selectAgent_alwaysAppend(state, agentId) ==
    set(state,
        IF Len(state.selectedAgentIds) >= 4
        THEN state
        ELSE [ selectedAgentIds |-> Append(state.selectedAgentIds, agentId) ])

(* Variant: ids that are not in the catalog are ignored *)
selectAgent_catalogOnly(state, agentId) ==
    set(state,
        IF \/ Len(state.selectedAgentIds) >= 4
                /\ ~includes(state.selectedAgentIds, agentId)
           \/ ~\E i \in 1..Len(state.agents) : state.agents[i].id = agentId
        THEN state
        ELSE [ selectedAgentIds |->
                 IF includes(state.selectedAgentIds, agentId)
                 THEN state.selectedAgentIds
                 ELSE Append(state.selectedAgentIds, agentId) ])

selectAgent(state, agentId) ==
    set(state,
        IF Len(state.selectedAgentIds) >= 4
             /\ ~includes(state.selectedAgentIds, agentId)
        THEN state
        ELSE [ selectedAgentIds |->
                 IF includes(state.selectedAgentIds, agentId)
                 THEN state.selectedAgentIds
                 ELSE Append(state.selectedAgentIds, agentId) ])

(* Variant: splice(indexOf(id), 1), which drops the last id when indexOf   *)
(* answers -1                                                              *)
unselectAgent_splice(state, agentId) ==
    LET ids == state.selectedAgentIds
        keep(id) == id # agentId
    IN  set(state,
            [ selectedAgentIds |->
                IF includes(ids, agentId) THEN SelectSeq(ids, keep)
                ELSE SubSeq(ids, 1, Len(ids) - 1) ])

unselectAgent(state, agentId) ==
    LET keep(id) == id # agentId
    IN  set(state, [selectedAgentIds |-> SelectSeq(state.selectedAgentIds, keep)])

setSelectedStrategy(state, strategyId) ==
    set(state, [selectedStrategy |-> strategyId])

addMessage(state, message) ==
    set(state, [messages |-> Append(state.messages, message)])

addMessages(state, messages) ==
    set(state, [messages |-> state.messages \o messages])

setCurrentConversation(state, conversationId) ==
    set(state, [currentConversation |-> conversationId])

toggleLeftSidebar(state) ==
    set(state, [isLeftSidebarOpen |-> ~state.isLeftSidebarOpen])

toggleRightSidebar(state) ==
    set(state, [isRightSidebarOpen |-> ~state.isRightSidebarOpen])

setConversationStatus(state, status) ==
    set(state, [conversationStatus |-> status])

(* Variant: the turn counter survives the reset *)
resetConversation_keepsTurn(state) ==
    set(state, [ messages |-> <<>>,
                 conversationStatus |-> "idle",
                 isProcessing |-> FALSE ])

(* Variant: the processing flag is left to the pending submission *)
resetConversation_keepsProcessing(state) ==
    set(state, [ messages |-> <<>>,
                 conversationStatus |-> "idle",
                 currentTurn |-> 0 ])

resetConversation(state) ==
    set(state, [ messages |-> <<>>,
                 conversationStatus |-> "idle",
                 currentTurn |-> 0,
                 isProcessing |-> FALSE ])

(* Variant: the validation failure is flagged like the backend failures *)
submitQueryNoAgents_setsStatus(state, uuid) ==
    set(addMessage(state,
            Message(uuid,
                "Please select at least one agent before submitting a query.",
                "system", "error", Undefined)),
        [conversationStatus |-> "error"])

submitQueryNoAgents(state, uuid) ==
    addMessage(state,
        Message(uuid,
                "Please select at least one agent before submitting a query.",
                "system", "error", Undefined))

userMessage(query, uuid) ==
    Message(uuid, query, "user", Undefined, Undefined)

thinkingMessage(date) ==
    Message(<<"thinking", date>>, "Thinking...", "assistant", "thinking",
            "coordinator")

(* Variant: the placeholder is shown before the user message is added *)
submitQueryStart_thinkingFirst(state, query, uuid, date) ==
    LET snapshot == state
        s1 == addMessage(state, thinkingMessage(date))
        s2 == set(s1, [ isProcessing |-> TRUE,
                        conversationStatus |-> "active",
                        currentTurn |-> snapshot.currentTurn + 1 ])
    IN  addMessage(s2, userMessage(query, uuid))

(* Variant: a submission is ignored while another one is processing *)
submitQueryStart_guarded(state, query, uuid, date) ==
    LET snapshot == state
        s1 == addMessage(state, userMessage(query, uuid))
        s2 == set(s1, [ isProcessing |-> TRUE,
                        conversationStatus |-> "active",
                        currentTurn |-> snapshot.currentTurn + 1 ])
    IN  IF snapshot.isProcessing THEN state
        ELSE addMessage(s2, thinkingMessage(date))

(* Variant: a submission made while another is processing joins its turn *)
submitQueryStart_sharedTurn(state, query, uuid, date) ==
    LET snapshot == state
        s1 == addMessage(state, userMessage(query, uuid))
        s2 == set(s1, [ isProcessing |-> TRUE,
                        conversationStatus |-> "active",
                        currentTurn |-> IF snapshot.isProcessing
                                        THEN snapshot.currentTurn
                                        ELSE snapshot.currentTurn + 1 ])
    IN  addMessage(s2, thinkingMessage(date))

(* Variant: the status depends on the log, as the conditional suggests *)
submitQueryStart_idleOnFirst(state, query, uuid, date) ==
    LET snapshot == state
        s1 == addMessage(state, userMessage(query, uuid))
        s2 == set(s1, [ isProcessing |-> TRUE,
                        conversationStatus |->
                            IF Len(snapshot.messages) > 0
                            THEN "active" ELSE "idle",
                        currentTurn |-> snapshot.currentTurn + 1 ])
    IN  addMessage(s2, thinkingMessage(date))

(* submitQuery, up to the await.  snapshot is the state read by get() at   *)
(* the start of the call; the handler runs to completion, so the state the *)
(* updates apply to is that same state.                                    *)
submitQueryStart(state, query, uuid, date) ==
    LET snapshot == state
        s1 == addMessage(state, userMessage(query, uuid))
        s2 == set(s1, [ isProcessing |-> TRUE,
                        conversationStatus |->
                            IF Len(snapshot.messages) > 0
                            THEN "active" ELSE "active",
                        currentTurn |-> snapshot.currentTurn + 1 ])
    IN  addMessage(s2, thinkingMessage(date))

removeThinking(state, thinkingId) ==
    LET keep(msg) == msg.id # thinkingId
    IN  set(state, [messages |-> SelectSeq(state.messages, keep)])

(* x || fallback on strings: the empty string and undefined are falsy *)
orElse(x, fallback) == IF x = Undefined \/ x = "" THEN fallback ELSE x

(* Variant: the try block without a finally block after it *)
submitQueryReturned_noFinally(state, thinkingId, response, uuid) ==
    LET s1 == removeThinking(state, thinkingId)
    IN  IF response.success
        THEN addMessages(s1, response.messages)
        ELSE set(addMessage(s1,
                     Message(uuid,
                             orElse(response.error,
                                    "An unknown error occurred"),
                             "system", "error", Undefined)),
                 [conversationStatus |-> "error"])

(* Variant: the placeholder is removed in the success branch only *)
submitQueryReturned_removesOnSuccess(state, thinkingId, response, uuid) ==
    LET s2 == IF response.success
              THEN addMessages(removeThinking(state, thinkingId),
                               response.messages)
              ELSE set(addMessage(state,
                           Message(uuid,
                                   orElse(response.error,
                                          "An unknown error occurred"),
                                   "system", "error", Undefined)),
                       [conversationStatus |-> "error"])
    IN  set(s2, [isProcessing |-> FALSE])

(* submitQuery after the await returned a response: rest of the try block, *)
(* then the finally block                                                  *)
submitQueryReturned(state, thinkingId, response, uuid) ==
    LET s1 == removeThinking(state, thinkingId)
        s2 == IF response.success
              THEN addMessages(s1, response.messages)
              ELSE set(addMessage(s1,
                           Message(uuid,
                                   orElse(response.error,
                                          "An unknown error occurred"),
                                   "system", "error", Undefined)),
                       [conversationStatus |-> "error"])
    IN  set(s2, [isProcessing |-> FALSE])

(* Variant: the catch block without a finally block after it *)
submitQueryThrew_noFinally(state, thinkingId, error, uuid) ==
    LET s1 == removeThinking(state, thinkingId)
        s2 == addMessage(s1,
                  Message(uuid,
                          "Error: " \o (IF error.isError THEN error.message
                                        ELSE "Unknown error occurred"),
                          "system", "error", Undefined))
    IN  set(s2, [conversationStatus |-> "error"])

(* Variant: the failure's message without the "Error: " prefix *)
submitQueryThrew_rawMessage(state, thinkingId, error, uuid) ==
    LET s1 == removeThinking(state, thinkingId)
        s2 == addMessage(s1,
                  Message(uuid,
                          IF error.isError THEN error.message
                          ELSE "Unknown error occurred",
                          "system", "error", Undefined))
        s3 == set(s2, [conversationStatus |-> "error"])
    IN  set(s3, [isProcessing |-> FALSE])

(* submitQuery after the await threw: the catch block, then finally *)
submitQueryThrew(state, thinkingId, error, uuid) ==
    LET s1 == removeThinking(state, thinkingId)
        s2 == addMessage(s1,
                  Message(uuid,
                          "Error: " \o (IF error.isError THEN error.message
                                        ELSE "Unknown error occurred"),
                          "system", "error", Undefined))
        s3 == set(s2, [conversationStatus |-> "error"])
    IN  set(s3, [isProcessing |-> FALSE])

(* Derived views *)

(* Variant: the selected ids mapped to their agents, in selection order *)
useSelectedAgents_selectionOrder(state) ==
    LET known(id) == \E i \in 1..Len(state.agents) : state.agents[i].id = id
        ids == SelectSeq(state.selectedAgentIds, known)
    IN  [ k \in 1..Len(ids) |->
            state.agents[CHOOSE i \in 1..Len(state.agents) :
                             state.agents[i].id = ids[k]] ]

useSelectedAgents(state) ==
    LET keep(agent) == includes(state.selectedAgentIds, agent.id)
    IN  SelectSeq(state.agents, keep)

useSelectedStrategy(state) ==
    IF \E i \in 1..Len(state.strategies) :
           state.strategies[i].id = state.selectedStrategy
    THEN LET i == CHOOSE j \in 1..Len(state.strategies) :
                     /\ state.strategies[j].id = state.selectedStrategy
                     /\ \A k \in 1..(j-1) :
                          state.strategies[k].id # state.selectedStrategy
         IN  state.strategies[i]
    ELSE Undefined

----------------------------------------------------------------------------
(* State after construction *)

InitialState ==
    [ apiSettings |-> initialApiSettings,
      agents |-> agents,
      selectedAgentIds |-> <<>>,
      strategies |-> strategies,
      selectedStrategy |-> "sequential",
      conversations |-> <<>>,
      currentConversation |-> Null,
      messages |-> <<>>,
      isLeftSidebarOpen |-> TRUE,
      isRightSidebarOpen |-> TRUE,
      isProcessing |-> FALSE,
      conversationStatus |-> "idle",
      currentTurn |-> 0 ]

Created ==
    /\ store = InitialState
    /\ pending = {}
    /\ now = 0
    /\ nextUuid = 0
    /\ calls = 0
    /\ steps = 0
    /\ sideOps = 0
    /\ lastOp = [op |-> "create", arg |-> Null, before |-> InitialState]

SelectionOps == {"selectAgent", "unselectAgent"}

ConversationOps ==
    SelectionOps \cup
    {"addMessage", "addMessages", "resetConversation", "submitQuery"}

(* The conversation in focus: one agent id, overlapping submissions *)
Init ==
    /\ Created
    /\ limits = [ steps |-> MaxSteps, submits |-> MaxSubmits,
                  sideOps |-> MaxSideOps, focus |-> ConversationOps,
                  agentIds |-> {"data-analyst"},
                  queries |-> {"hello"},
                  responses |-> {TRUE, FALSE} ]

(* The settlement of submissions in focus *)
InitLive ==
    /\ Created
    /\ limits = [ steps |-> LiveMaxSteps, submits |-> MaxSubmits,
                  sideOps |-> MaxSideOps, focus |-> ConversationOps,
                  agentIds |-> {"data-analyst"},
                  queries |-> {"hello"},
                  responses |-> {TRUE, FALSE} ]

(* The selection in focus: up to and beyond capacity *)
InitSelection ==
    /\ Created
    /\ limits = [ steps |-> SelMaxSteps, submits |-> MaxSubmits,
                  sideOps |-> MaxSideOps, focus |-> SelectionOps,
                  agentIds |-> AgentIdInputs,
                  queries |-> {""},
                  responses |-> {TRUE} ]

(* A caller invokes the store operation called name *)
Called(name) ==
    /\ steps < limits.steps
    /\ name \notin limits.focus => sideOps < limits.sideOps
    /\ steps' = steps + 1
    /\ sideOps' = IF name \in limits.focus THEN sideOps ELSE sideOps + 1
    /\ limits' = limits

(* A synchronous store operation that is not submitQuery *)
Operation(name, arg, newState) ==
    /\ Called(name)
    /\ store' = newState
    /\ lastOp' = [op |-> name, arg |-> arg, before |-> store]
    /\ UNCHANGED <<pending, now, nextUuid, calls>>

SelectAgent ==
    \E agentId \in limits.agentIds :
        Operation("selectAgent", agentId, selectAgent(store, agentId))

UnselectAgent ==
    \E agentId \in limits.agentIds :
        Operation("unselectAgent", agentId, unselectAgent(store, agentId))

UpdateApiSettings ==
    \E settings \in SettingsInputs :
        Operation("updateApiSettings", settings,
                  updateApiSettings(store, settings))

SetSelectedStrategy ==
    \E strategyId \in StrategyIdInputs :
        Operation("setSelectedStrategy", strategyId,
                  setSelectedStrategy(store, strategyId))

AddMessage ==
    Operation("addMessage", ExternalMessage(1),
                 addMessage(store, ExternalMessage(1)))

AddMessages ==
    \E messages \in { <<ExternalMessage(2), ExternalMessage(3)>> } :
        Operation("addMessages", messages, addMessages(store, messages))

SetCurrentConversation ==
    \E conversationId \in ConversationIdInputs :
        Operation("setCurrentConversation", conversationId,
                  setCurrentConversation(store, conversationId))

ToggleLeftSidebar ==
    Operation("toggleLeftSidebar", Null, toggleLeftSidebar(store))

ToggleRightSidebar ==
    Operation("toggleRightSidebar", Null, toggleRightSidebar(store))

SetConversationStatus ==
    \E status \in StatusInputs :
        Operation("setConversationStatus", status,
                  setConversationStatus(store, status))

ResetConversation ==
    Operation("resetConversation", Null, resetConversation(store))

(* Date.now(): the clock never runs backwards, and two readings are equal  *)
(* when they fall in the same millisecond.  Only the equality of readings  *)
(* matters, so a reading is the previous one or the next integer.          *)
ClockReadings == IF now = 0 THEN {1} ELSE {now, now + 1}

(* submitQuery(query) up to its return (no agent selected) or up to the    *)
(* await of n8nService.submitQuery                                         *)
SubmitQuery ==
    \E query \in limits.queries :
        /\ Called("submitQuery")
        /\ calls < limits.submits
        /\ calls' = calls + 1
        /\ nextUuid' = nextUuid + 1
        /\ IF Len(store.selectedAgentIds) = 0
           THEN /\ store' = submitQueryNoAgents(store, uuidv4(nextUuid))
                /\ pending' = pending
                /\ now' = now
                /\ lastOp' = [ op |-> "submitQuery", arg |-> query,
                               before |-> store, call |-> calls + 1,
                               accepted |-> FALSE, awaiting |-> pending ]
           ELSE \E date \in ClockReadings :
                /\ store' = submitQueryStart(store, query, uuidv4(nextUuid),
                                             date)
                /\ pending' = pending \cup
                     { [ call |-> calls + 1,
                         thinkingId |-> thinkingMessage(date).id,
                         selectedAgentIds |-> store.selectedAgentIds,
                         selectedStrategy |-> store.selectedStrategy,
                         query |-> query,
                         useDemoMode |-> store.apiSettings.useDemoMode,
                         messagesBefore |-> store.messages,
                         currentTurnBefore |-> store.currentTurn ] }
                /\ now' = date
                /\ lastOp' = [ op |-> "submitQuery", arg |-> query,
                               before |-> store, call |-> calls + 1,
                               accepted |-> TRUE, awaiting |-> pending ]

(* The operation that ran before a continuation: its name and, for a      *)
(* submitQuery, the number of the invocation                               *)
Previous ==
    [ op |-> lastOp.op,
      call |-> IF lastOp.op = "submitQuery" THEN lastOp.call ELSE 0 ]

(* The backend client returns a response to a suspended invocation *)
BackendReturns ==
    \E p \in pending :
        \E response \in ResponseInputs(p.call) :
            /\ response.success \in limits.responses
            /\ store' = submitQueryReturned(store, p.thinkingId, response,
                                            uuidv4(nextUuid))
            /\ nextUuid' = IF response.success THEN nextUuid
                                               ELSE nextUuid + 1
            /\ pending' = pending \ {p}
            /\ lastOp' = [ op |-> "returned", arg |-> response,
                           before |-> store, invocation |-> p,
                           previous |-> Previous,
                           awaiting |-> pending \ {p} ]
            /\ UNCHANGED <<now, calls, steps, sideOps, limits>>

(* The backend client throws (or its promise rejects) *)
BackendThrows ==
    \E p \in pending :
        \E error \in ThrownInputs :
            /\ error.isError \in limits.responses
            /\ store' = submitQueryThrew(store, p.thinkingId, error,
                                         uuidv4(nextUuid))
            /\ nextUuid' = nextUuid + 1
            /\ pending' = pending \ {p}
            /\ lastOp' = [ op |-> "threw", arg |-> error,
                           before |-> store, invocation |-> p,
                           previous |-> Previous,
                           awaiting |-> pending \ {p} ]
            /\ UNCHANGED <<now, calls, steps, sideOps, limits>>

Next ==
    \/ UpdateApiSettings
    \/ SelectAgent
    \/ UnselectAgent
    \/ SetSelectedStrategy
    \/ AddMessage
    \/ AddMessages
    \/ SetCurrentConversation
    \/ ToggleLeftSidebar
    \/ ToggleRightSidebar
    \/ SetConversationStatus
    \/ ResetConversation
    \/ SubmitQuery
    \/ BackendReturns
    \/ BackendThrows

Spec == Init /\ [][Next]_vars

SpecSelection == InitSelection /\ [][Next]_vars

(* Every backend call eventually returns or throws: the client's promise   *)
(* settles, and the continuation of the await then runs.                   *)
SpecLive ==
    InitLive /\ [][Next]_vars /\ WF_vars(BackendReturns \/ BackendThrows)

----------------------------------------------------------------------------
(* Properties of the selection (SpecSelection) *)

NoDuplicates(seq) ==
    \A i, j \in 1..Len(seq) : seq[i] = seq[j] => i = j

(* seq without its i-th element *)
Without(seq, i) == SubSeq(seq, 1, i - 1) \o SubSeq(seq, i + 1, Len(seq))

(* C1: in every reachable state selectedAgentIds holds at most 4 ids and   *)
(* holds no id twice.                                                      *)
C1_SelectionBounded ==
    /\ Len(store.selectedAgentIds) <= MaxSelected
    /\ NoDuplicates(store.selectedAgentIds)

(* a fifth id was offered to a full selection *)
C1_Witness ==
    /\ lastOp.op = "selectAgent"
    /\ Len(store.selectedAgentIds) = MaxSelected
    /\ ~includes(store.selectedAgentIds, lastOp.arg)

(* C2: selectAgent(id) with 4 agents selected and id not among them leaves *)
(* the selection (same ids, same order) and every other slice of the store *)
(* as they were.                                                           *)
C2_SelectAtCapacityIsNoOp ==
    ( /\ lastOp.op = "selectAgent"
      /\ Len(lastOp.before.selectedAgentIds) = MaxSelected
      /\ ~includes(lastOp.before.selectedAgentIds, lastOp.arg) )
    => store = lastOp.before

(* the fifth id is a catalog id and the full selection holds an unknown id *)
C2_Witness ==
    /\ lastOp.op = "selectAgent"
    /\ Len(lastOp.before.selectedAgentIds) = MaxSelected
    /\ ~includes(lastOp.before.selectedAgentIds, lastOp.arg)
    /\ lastOp.arg = "data-engineer"

(* C3: selectAgent is idempotent: a second selectAgent(id) changes nothing *)
(* after a first one, and selectAgent(id) of a selected id leaves the      *)
(* selection as it was (same ids, same order, no duplicate), at capacity   *)
(* or below.                                                               *)
C3_SelectIdempotent ==
    /\ \A id \in AgentIdInputs :
         LET once == selectAgent(store, id)
         IN  /\ selectAgent(once, id).selectedAgentIds = once.selectedAgentIds
             /\ includes(store.selectedAgentIds, id)
                  => once.selectedAgentIds = store.selectedAgentIds
    /\ ( lastOp.op = "selectAgent"
         /\ includes(lastOp.before.selectedAgentIds, lastOp.arg) )
       => /\ store.selectedAgentIds = lastOp.before.selectedAgentIds
          /\ NoDuplicates(store.selectedAgentIds)

(* a selected id was selected again while the selection was full *)
C3_Witness ==
    /\ lastOp.op = "selectAgent"
    /\ includes(lastOp.before.selectedAgentIds, lastOp.arg)
    /\ Len(lastOp.before.selectedAgentIds) = MaxSelected

(* C4: unselectAgent(id) with id not selected leaves the whole store as it *)
(* was; with id selected it removes exactly that id, keeps the other ids   *)
(* in their order and leaves the other slices as they were.                *)
C4_Unselect ==
    lastOp.op = "unselectAgent" =>
        LET old == lastOp.before.selectedAgentIds
        IN  IF ~includes(old, lastOp.arg)
            THEN store = lastOp.before
            ELSE /\ \E i \in 1..Len(old) :
                      /\ old[i] = lastOp.arg
                      /\ store.selectedAgentIds = Without(old, i)
                 /\ [store EXCEPT !.selectedAgentIds = old] = lastOp.before

(* an id in the middle of the selection was removed *)
C4_Witness ==
    /\ lastOp.op = "unselectAgent"
    /\ Len(lastOp.before.selectedAgentIds) >= 3
    /\ lastOp.before.selectedAgentIds[2] = lastOp.arg
    /\ Len(store.selectedAgentIds) = Len(lastOp.before.selectedAgentIds) - 1

(* position of an agent record in the catalog *)
CatalogIndex(agent) == CHOOSE i \in 1..Len(agents) : agents[i] = agent

CatalogIds == { agents[i].id : i \in 1..Len(agents) }

(* C10: the selected-agents view lists exactly the catalog agents whose id *)
(* is selected, each once, in catalog order; selected ids that are not in  *)
(* the catalog contribute nothing.                                         *)
C10_ViewInCatalogOrder ==
    LET view == useSelectedAgents(store)
    IN  /\ \A k \in 1..Len(view) : view[k] \in Range(agents)
        /\ { view[k].id : k \in 1..Len(view) }
             = Range(store.selectedAgentIds) \cap CatalogIds
        /\ \A k, l \in 1..Len(view) :
             k < l => CatalogIndex(view[k]) < CatalogIndex(view[l])

(* agents selected against the catalog order, an unknown id among them *)
C10_Witness ==
    /\ Len(store.selectedAgentIds) = 3
    /\ store.selectedAgentIds[1] = "data-engineer"
    /\ store.selectedAgentIds[2] = "no-such-agent"
    /\ store.selectedAgentIds[3] = "data-architect"
    /\ Len(useSelectedAgents(store)) = 2

----------------------------------------------------------------------------
(* Properties of the conversation (Spec) *)

IsSystemError(msg) == msg.role = "system" /\ msg.type = "error"

(* the log grew by exactly one message, a system error *)
OneErrorAppended(old, new) ==
    /\ Len(new) = Len(old) + 1
    /\ SubSeq(new, 1, Len(old)) = old
    /\ IsSystemError(new[Len(new)])

SubmittedWithoutAgents ==
    /\ lastOp.op = "submitQuery"
    /\ Len(lastOp.before.selectedAgentIds) = 0

(* C5 as stated: submitQuery with no agent selected appends exactly one    *)
(* system error message, does not invoke the backend, adds no user message *)
(* and no placeholder, and leaves isProcessing false and currentTurn and   *)
(* conversationStatus unchanged.                                           *)
C5_NoAgentsLeavesProcessingFalse ==
    SubmittedWithoutAgents =>
        /\ OneErrorAppended(lastOp.before.messages, store.messages)
        /\ pending = lastOp.awaiting
        /\ store.isProcessing = FALSE
        /\ store.currentTurn = lastOp.before.currentTurn
        /\ store.conversationStatus = lastOp.before.conversationStatus

(* C5 as amended: submitQuery with no agent selected appends exactly one   *)
(* system error message, does not invoke the backend, adds no user message *)
(* and no placeholder, and leaves isProcessing, currentTurn,               *)
(* conversationStatus and every other slice unchanged.                     *)
C5_NoAgentsOnlyAppendsError ==
    SubmittedWithoutAgents =>
        /\ OneErrorAppended(lastOp.before.messages, store.messages)
        /\ pending = lastOp.awaiting
        /\ [store EXCEPT !.messages = lastOp.before.messages] = lastOp.before

(* rejected while an earlier submission is still awaiting the backend *)
C5_Witness ==
    /\ SubmittedWithoutAgents
    /\ ~lastOp.accepted
    /\ lastOp.awaiting # {}
    /\ store.isProcessing

Settled == lastOp.op \in {"returned", "threw"}

(* the settled invocation ran from its call to its completion with no      *)
(* other operation in between                                               *)
NothingInterleaved ==
    /\ lastOp.previous.op = "submitQuery"
    /\ lastOp.previous.call = lastOp.invocation.call

HoldsId(messages, id) == \E i \in 1..Len(messages) : messages[i].id = id

(* C6: for an accepted submitQuery(text) with no other operation            *)
(* interleaved, once the backend returned success the log is the log before *)
(* the call, then one user message with content text, then the returned     *)
(* messages in their order; the placeholder is absent and currentTurn is    *)
(* one more than before the call.                                           *)
C6_SuccessfulSubmission ==
    ( /\ lastOp.op = "returned"
      /\ lastOp.arg.success
      /\ NothingInterleaved )
    => LET inv == lastOp.invocation
           old == inv.messagesBefore
           new == store.messages
       IN  /\ Len(new) = Len(old) + 1 + Len(lastOp.arg.messages)
           /\ SubSeq(new, 1, Len(old)) = old
           /\ new[Len(old) + 1].role = "user"
           /\ new[Len(old) + 1].content = inv.query
           /\ SubSeq(new, Len(old) + 2, Len(new)) = lastOp.arg.messages
           /\ ~HoldsId(new, inv.thinkingId)
           /\ store.currentTurn = inv.currentTurnBefore + 1

(* C7: when a submitQuery invocation that contacted the backend finishes,   *)
(* by success, by a result flagged unsuccessful or by a thrown failure,     *)
(* isProcessing is false in the state right after, whatever other           *)
(* submissions are still awaiting.                                          *)
C7_ProcessingFalseAfterSettle ==
    Settled => store.isProcessing = FALSE

(* a thrown failure settled one submission while another is still awaiting *)
C7_Witness ==
    /\ lastOp.op = "threw"
    /\ lastOp.before.isProcessing
    /\ lastOp.awaiting # {}
    /\ pending # {}

FallbackOr(text, fallback) ==
    IF text = Undefined \/ text = "" THEN fallback ELSE text

(* C8: when the backend call of a submission fails, that submission's       *)
(* placeholder is removed, exactly one system error message is appended and *)
(* conversationStatus becomes 'error'; the content is the response's error  *)
(* text (or the generic fallback) for a result flagged unsuccessful, and    *)
(* "Error: " followed by the failure's message (or by the generic fallback  *)
(* description) for a thrown failure: "Error: timeout" for "timeout".       *)
C8_FailureReported ==
    ( Settled /\ (lastOp.op = "returned" => ~lastOp.arg.success) )
    => LET id == lastOp.invocation.thinkingId
           old == lastOp.before.messages
           new == store.messages
           last == new[Len(new)]
       IN  /\ ~HoldsId(new, id)
           /\ Len(new) >= 1
           /\ IsSystemError(last)
           /\ \A m \in Range(old) :
                m.id # id => Cardinality({ i \in 1..Len(new) : new[i] = m })
                             = Cardinality({ i \in 1..Len(old) : old[i] = m })
           /\ Len(new) = 1 + Cardinality({ i \in 1..Len(old) : old[i].id # id })
           /\ store.conversationStatus = "error"
           /\ lastOp.op = "returned" =>
                last.content = FallbackOr(lastOp.arg.error,
                                          "An unknown error occurred")
           /\ (lastOp.op = "threw" /\ lastOp.arg.isError
               /\ lastOp.arg.message = "timeout")
                => last.content = "Error: timeout"
           /\ (lastOp.op = "threw" /\ ~lastOp.arg.isError)
                => last.content = "Error: Unknown error occurred"

(* the backend call rejected with "timeout" while the placeholder was shown *)
C8_Witness ==
    /\ lastOp.op = "threw"
    /\ lastOp.arg.message = "timeout"
    /\ HoldsId(lastOp.before.messages, lastOp.invocation.thinkingId)
    /\ Len(store.messages) = Len(lastOp.before.messages)

(* C9: resetConversation, in any reachable state (also while a submission   *)
(* is awaiting the backend), yields an empty message list, status 'idle',   *)
(* turn 0 and isProcessing false, and leaves the agent selection, the       *)
(* strategy, the API settings, the conversation pointer and the sidebar     *)
(* flags unchanged.                                                         *)
C9_Reset ==
    lastOp.op = "resetConversation" =>
        /\ store.messages = <<>>
        /\ store.conversationStatus = "idle"
        /\ store.currentTurn = 0
        /\ store.isProcessing = FALSE
        /\ \A f \in { "selectedAgentIds", "selectedStrategy", "apiSettings",
                      "currentConversation", "isLeftSidebarOpen",
                      "isRightSidebarOpen", "agents", "strategies" } :
             store[f] = lastOp.before[f]

(* reset while a submission is awaiting and a slice outside the            *)
(* conversation differs from its initial value                             *)
C9_Witness ==
    /\ lastOp.op = "resetConversation"
    /\ pending # {}
    /\ lastOp.before.isProcessing
    /\ lastOp.before.currentTurn > 0
    /\ [store EXCEPT !.selectedAgentIds = <<>>] # InitialState

----------------------------------------------------------------------------
(* Properties of the catalogs (SpecSelection) *)

StrategyIds == { strategies[i].id : i \in 1..Len(strategies) }

(* C11 as stated: in every reachable state every id in selectedAgentIds is *)
(* the id of a catalog agent and selectedStrategy is the id of a catalog   *)
(* strategy.                                                               *)
C11_OnlyCatalogIds ==
    /\ Range(store.selectedAgentIds) \subseteq CatalogIds
    /\ store.selectedStrategy \in StrategyIds

(* C11 as amended: the store validates no id.  selectAgent(id) below       *)
(* capacity selects any id and setSelectedStrategy(id) overwrites with any *)
(* id; an id in selectedAgentIds that is not a catalog id was passed to    *)
(* selectAgent, and a selectedStrategy that is not a catalog id was passed *)
(* to setSelectedStrategy.                                                 *)
C11_IdsComeFromCallers ==
    /\ (Range(store.selectedAgentIds) \ CatalogIds)
         \subseteq ( (Range(lastOp.before.selectedAgentIds) \ CatalogIds)
                     \cup (IF lastOp.op = "selectAgent" THEN {lastOp.arg}
                                                        ELSE {}) )
    /\ store.selectedStrategy \notin StrategyIds
         => \/ store.selectedStrategy = lastOp.before.selectedStrategy
            \/ /\ lastOp.op = "setSelectedStrategy"
               /\ lastOp.arg = store.selectedStrategy
    /\ ( lastOp.op = "selectAgent"
         /\ Len(lastOp.before.selectedAgentIds) < MaxSelected )
         => includes(store.selectedAgentIds, lastOp.arg)
    /\ lastOp.op = "setSelectedStrategy"
         => store.selectedStrategy = lastOp.arg

(* an unknown agent id was selected while an unknown strategy is selected *)
C11_Witness ==
    /\ lastOp.op = "selectAgent"
    /\ lastOp.arg = "no-such-agent"
    /\ includes(store.selectedAgentIds, "no-such-agent")
    /\ store.selectedStrategy = "no-such-strategy"

----------------------------------------------------------------------------
(* Properties of overlapping submissions (Spec) *)

ReturnedSuccess == lastOp.op = "returned" /\ lastOp.arg.success

(* C12 as stated: right after the completion of a submission whose backend *)
(* call returned success, conversationStatus is 'active'.                  *)
C12_ActiveAfterSuccess ==
    ReturnedSuccess => store.conversationStatus = "active"

(* C12 as amended: the completion of a successful submission leaves        *)
(* conversationStatus as it found it; it is 'active' when no other         *)
(* operation ran between the call of the submission and its completion.    *)
C12_StatusKeptOnSuccess ==
    ReturnedSuccess =>
        /\ store.conversationStatus = lastOp.before.conversationStatus
        /\ NothingInterleaved => store.conversationStatus = "active"

(* a success completed after something else had set the status to 'error' *)
C12_Witness ==
    /\ ReturnedSuccess
    /\ ~NothingInterleaved
    /\ store.conversationStatus = "error"

AcceptedSubmission == lastOp.op = "submitQuery" /\ lastOp.accepted

(* C13: currentTurn grows by exactly 1 with each submitQuery that passes   *)
(* the agent-selection check, also when submissions overlap, is set to 0   *)
(* by resetConversation and is left alone by every other step, so that no  *)
(* increment is lost and it never decreases except through a reset.        *)
C13_TurnCountsSubmissions ==
    /\ AcceptedSubmission
         => store.currentTurn = lastOp.before.currentTurn + 1
    /\ lastOp.op = "resetConversation" => store.currentTurn = 0
    /\ ~AcceptedSubmission /\ lastOp.op # "resetConversation"
         => store.currentTurn = lastOp.before.currentTurn

(* a second submission was accepted while the first is still awaiting *)
C13_Witness ==
    /\ AcceptedSubmission
    /\ lastOp.awaiting # {}
    /\ lastOp.before.isProcessing
    /\ store.currentTurn = 2

(* messages whose id the store generated (uuidv4 or thinking-<time>), as   *)
(* opposed to messages handed to addMessage(s) or returned by the backend  *)
StoreMade(msg) == msg.id[1] \in {"uuid", "thinking"}

(* C14: in every reachable state the messages of the log have pairwise     *)
(* distinct ids, the thinking placeholders of overlapping submissions      *)
(* included (stated for the messages the store itself creates).            *)
C14_DistinctIds ==
    \A i, j \in 1..Len(store.messages) :
        ( /\ StoreMade(store.messages[i])
          /\ StoreMade(store.messages[j])
          /\ store.messages[i].id = store.messages[j].id )
        => i = j

IsPrefix(old, new) ==
    Len(old) <= Len(new) /\ SubSeq(new, 1, Len(old)) = old

(* C15: apart from resetConversation no step removes or reorders a message *)
(* of the log, except that the completion of a submission removes that     *)
(* submission's own thinking placeholder and nothing else: every other     *)
(* message, the placeholder of another awaiting submission included, stays *)
(* in its place.                                                           *)
C15_OnlyOwnPlaceholderRemoved ==
    lastOp.op # "resetConversation" =>
        LET old == lastOp.before.messages
            new == store.messages
        IN  IF Settled
            THEN \/ IsPrefix(old, new)
                 \/ \E i \in 1..Len(old) :
                      /\ old[i].id = lastOp.invocation.thinkingId
                      /\ IsPrefix(Without(old, i), new)
            ELSE IsPrefix(old, new)

Thinking(messages) ==
    { i \in 1..Len(messages) : messages[i].type = "thinking" }

(* C16: overlapping submissions are not guarded.  A submitQuery called     *)
(* with an agent selected while another submission is awaiting the backend *)
(* is accepted like any other: it adds its user message and a further      *)
(* placeholder and contacts the backend; and when a submission completes   *)
(* while another is awaiting, isProcessing is false although that other    *)
(* submission is still awaiting.                                           *)
C16_OverlapNotGuarded ==
    /\ ( lastOp.op = "submitQuery"
         /\ Len(lastOp.before.selectedAgentIds) > 0 )
       => /\ lastOp.accepted
          /\ Cardinality(pending) = Cardinality(lastOp.awaiting) + 1
          /\ Len(store.messages) = Len(lastOp.before.messages) + 2
          /\ Cardinality(Thinking(store.messages))
               = Cardinality(Thinking(lastOp.before.messages)) + 1
    /\ ( Settled /\ lastOp.awaiting # {} )
       => /\ pending = lastOp.awaiting
          /\ ~store.isProcessing

(* two placeholders were in the log at once, and now one submission has    *)
(* completed: isProcessing is false while the other is still awaiting      *)
C16_Witness ==
    /\ Settled
    /\ Cardinality(Thinking(lastOp.before.messages)) = 2
    /\ pending # {}
    /\ ~store.isProcessing
    /\ store.conversationStatus = "error"

(* the suspended invocation made by the submitQuery that ran last *)
Invoked == { p \in pending : p.call = lastOp.call }

(* C17: the steps of an accepted submitQuery before the backend call run   *)
(* as one: when the backend client is invoked, the last two messages of    *)
(* the log are the submission's user message and then its placeholder,     *)
(* isProcessing is true, conversationStatus is 'active', and the backend   *)
(* receives the selection, the strategy id and the demo-mode flag the      *)
(* store holds at that moment.                                             *)
C17_StateAtBackendCall ==
    AcceptedSubmission =>
        LET new == store.messages
            n == Len(new)
        IN  /\ Cardinality(Invoked) = 1
            /\ n >= 2
            /\ SubSeq(new, 1, n - 2) = lastOp.before.messages
            /\ new[n - 1].role = "user"
            /\ new[n - 1].content = lastOp.arg
            /\ new[n].type = "thinking"
            /\ store.isProcessing
            /\ store.conversationStatus = "active"
            /\ \A p \in Invoked :
                 /\ new[n].id = p.thinkingId
                 /\ p.query = lastOp.arg
                 /\ p.selectedAgentIds = store.selectedAgentIds
                 /\ p.selectedStrategy = store.selectedStrategy
                 /\ p.useDemoMode = store.apiSettings.useDemoMode

(* the backend was called in demo mode while an earlier call is awaiting *)
C17_Witness ==
    /\ AcceptedSubmission
    /\ lastOp.awaiting # {}
    /\ store.apiSettings.useDemoMode
    /\ \E p \in Invoked : p.useDemoMode /\ p.selectedAgentIds # <<>>

----------------------------------------------------------------------------
(* Settlement of submissions (SpecLive) *)

Awaiting(call) == \E p \in pending : p.call = call

(* C18: provided every backend call eventually returns or throws, every    *)
(* accepted submission eventually settles; and whenever no submission is   *)
(* awaiting the backend, the log holds no thinking placeholder and         *)
(* isProcessing is false, under any interleaving of submissions, resets    *)
(* and selection changes.                                                  *)
C18_SubmissionsSettle ==
    /\ \A call \in 1..MaxSubmits : Awaiting(call) ~> ~Awaiting(call)
    /\ [](pending = {} =>
            /\ Thinking(store.messages) = {}
            /\ ~store.isProcessing)

(* the later of two overlapping submissions has settled, the other before it *)
C18_Witness ==
    /\ Settled
    /\ pending = {}
    /\ Thinking(lastOp.invocation.messagesBefore) # {}
    /\ Thinking(lastOp.before.messages) # {}
    /\ Thinking(store.messages) = {}

----------------------------------------------------------------------------
(* The processing flag and the turn counter (Spec) *)

(* C19: isProcessing is true only if at least one submitQuery invocation   *)
(* is awaiting its backend response: only a submitQuery that passes the    *)
(* agent-selection check turns it on, and every completion and every       *)
(* resetConversation turn it off.                                          *)
C19_ProcessingOnlyWhileAwaiting ==
    /\ store.isProcessing => pending # {}
    /\ (store.isProcessing /\ ~lastOp.before.isProcessing)
           => AcceptedSubmission
    /\ (Settled \/ lastOp.op = "resetConversation") => ~store.isProcessing

(* a submission was accepted with the flag off while another is awaiting *)
C19_Witness ==
    /\ AcceptedSubmission
    /\ ~lastOp.before.isProcessing
    /\ lastOp.awaiting # {}
    /\ store.isProcessing
    /\ Cardinality(pending) = 2

UserMessages(messages) ==
    { i \in 1..Len(messages) : messages[i].role = "user" }

Direct(messages) ==
    { i \in 1..Len(messages) : messages[i].id[1] = "ext" }

(* C20: while the log is changed only by submitQuery and resetConversation *)
(* (no addMessage or addMessages call, no user-role message from the       *)
(* backend), the number of user-role messages in the log equals            *)
(* currentTurn after every step, also with overlapping submissions and     *)
(* with resets issued while a submission is awaiting.  Stated twice: for   *)
(* the log as it stands, and for the step that led to it.                  *)
C20_UserMessagesEqualTurn ==
    /\ Direct(store.messages) = {}
           => Cardinality(UserMessages(store.messages)) = store.currentTurn
    /\ ( /\ lastOp.op \notin {"addMessage", "addMessages"}
         /\ Cardinality(UserMessages(lastOp.before.messages))
                = lastOp.before.currentTurn )
           => Cardinality(UserMessages(store.messages)) = store.currentTurn

(* a submission made after a reset settles while an older one is awaiting *)
C20_Witness ==
    /\ Settled
    /\ pending # {}
    /\ Direct(store.messages) = {}
    /\ store.currentTurn = 1
    /\ lastOp.invocation.currentTurnBefore = 0
    /\ \E p \in pending : p.currentTurnBefore = 0 /\ p.call # lastOp.invocation.call

====
